---- MODULE Spec2Model ----
(***************************************************************************)
(* Model of data/dataset.py: class Dataset (sequence registry, the two     *)
(* stack builders imgStackRGBOnly / imgStackDepthOnly and their caches).   *)
(*                                                                         *)
(* Conventions                                                             *)
(*  - numpy arrays are records [shape, at]: shape is the tuple of          *)
(*    dimensions, at maps every index tuple to the element.  Indices are   *)
(*    1-based here (Python's data[0] is data[1]).                          *)
(*  - float32 values are modelled as exact rationals <<num, den>> in       *)
(*    lowest terms with den > 0; rounding of float32 is not modelled.      *)
(*  - a Python call yields a record: [kind |-> "empty"] for the list [],   *)
(*    [kind |-> "raise", exc |-> ...] for an exception leaving the call,   *)
(*    [kind |-> "stacks", img, lbl] for the returned tuple, and            *)
(*    [kind |-> "seq", seq] for a sequence returned by imgSeq.             *)
(***************************************************************************)
EXTENDS Integers, Sequences, FiniteSets, TLC

\* ------------------------------------------------------------ bounds
MaxSeqs == 2
MaxFrames == 2
MaxSeed == 1

\* ------------------------------------------------------------ rationals
Abs(n) == IF n < 0 THEN -n ELSE n

RECURSIVE Gcd(_, _)
Gcd(a, b) == IF b = 0 THEN a ELSE Gcd(b, a % b)

\* n/d in lowest terms, d # 0
Rat(n, d) ==
    LET g == Gcd(Abs(n), Abs(d))
        s == IF d < 0 THEN -1 ELSE 1
    IN  <<(s * n) \div g, (s * d) \div g>>

RInt(n) == <<n, 1>>
RAdd(p, q) == Rat(p[1] * q[2] + q[1] * p[2], p[2] * q[2])
RSub(p, q) == Rat(p[1] * q[2] - q[1] * p[2], p[2] * q[2])
RDiv(p, q) == Rat(p[1] * q[2], p[2] * q[1])
RLe(p, q) == p[1] * q[2] <= q[1] * p[2]
RLt(p, q) == p[1] * q[2] < q[1] * p[2]

\* ------------------------------------------------------------ arrays
RECURSIVE Idx(_)
Idx(shape) ==
    IF shape = <<>> THEN {<<>>}
    ELSE {<<i>> \o t : i \in 1..Head(shape), t \in Idx(Tail(shape))}

\* an array of the given shape holding elems[ix] at index ix
MkArray(shape, elems) == [shape |-> shape, at |-> [ix \in Idx(shape) |-> elems[ix]]]

\* numpy.zeros(shape, dtype='float32')
Zeros(shape) == MkArray(shape, [ix \in Idx(shape) |-> RInt(0)])

\* numpy.asarray(a, 'float32') of an integer array
AsFloat32(a) == [shape |-> a.shape, at |-> [ix \in DOMAIN a.at |-> RInt(a.at[ix])]]

\* elementwise a -= q, a /= q
ArrSub(a, q) == [shape |-> a.shape, at |-> [ix \in DOMAIN a.at |-> RSub(a.at[ix], q)]]
ArrDiv(a, q) == [shape |-> a.shape, at |-> [ix \in DOMAIN a.at |-> RDiv(a.at[ix], q)]]

\* numpy.clip(a, lo, hi)
ArrClip(a, lo, hi) ==
    [shape |-> a.shape,
     at |-> [ix \in DOMAIN a.at |->
               IF RLt(a.at[ix], lo) THEN lo
               ELSE IF RLt(hi, a.at[ix]) THEN hi ELSE a.at[ix]]]

\* a[a == 0] = q
ArrFillZeros(a, q) ==
    [shape |-> a.shape,
     at |-> [ix \in DOMAIN a.at |-> IF a.at[ix] = RInt(0) THEN q ELSE a.at[ix]]]

\* numpy broadcasting of a source shape against the shape of the assigned
\* slice: shapes are aligned at their last axis; each source axis must equal
\* the target axis or be 1.  (Sources here never have more axes than the slice.)
Broadcastable(src, dst) ==
    /\ Len(src) <= Len(dst)
    /\ \A k \in 1..Len(src) :
          LET s == src[Len(src) - k + 1]
              t == dst[Len(dst) - k + 1]
          IN  s = t \/ s = 1

\* index of the source element that lands on target index t
BIndex(src, t) ==
    [k \in 1..Len(src) |->
        IF src[k] = 1 THEN 1 ELSE t[Len(t) - Len(src) + k]]

\* stack[i] = a, for a broadcastable a
SetItem(stack, i, a) ==
    [shape |-> stack.shape,
     at |-> [ix \in DOMAIN stack.at |->
               IF ix[1] = i THEN a.at[BIndex(a.shape, Tail(ix))]
               ELSE stack.at[ix]]]

\* ------------------------------------------------------------ input data
\* The importers are outside the repository core; frames and sequences are
\* drawn from a family indexed by a frame shape <<h, w>> and a seed k.
Names == {"a", "b"}
Unknown == "zz"
ReqNames == Names \cup {Unknown}
Shapes == {<<3, 3>>, <<1, 2>>}
Cubes == {2, 3}
LabelShape == <<2, 2>>

\* color values cover 0 and 255 and differ along every axis
ColorVal(k, ix) ==
    LET base == (64 * (ix[1] - 1) + 16 * (ix[2] - 1) + 4 * (ix[3] - 1)
                    + (k \div 2)) % 256
    IN  IF k % 2 = 0 THEN base ELSE 255 - base

ComOf(k) == <<0, 0, 10 + k>>

\* depth values around com[2]; 0 marks a pixel without measurement
DptVal(k, ix) ==
    IF (ix[1] + ix[2] + k) % 2 = 0 THEN 0
    ELSE ComOf(k)[3] - 1 + ((ix[1] + 2 * ix[2]) % 3)

GtVal(k, ix) == ((3 * k + 2 * ix[1] + 3 * ix[2]) % 7) - 3

MkFrame(sh, k) ==
    LET csh == <<sh[1], sh[2], 3>>
    IN  [color    |-> MkArray(csh, [ix \in Idx(csh) |-> ColorVal(k, ix)]),
         dpt      |-> MkArray(sh, [ix \in Idx(sh) |-> DptVal(k, ix)]),
         gtorig   |-> MkArray(LabelShape,
                              [ix \in Idx(LabelShape) |-> GtVal(k, ix) + ComOf(k)[3]]),
         gt3Dcrop |-> MkArray(LabelShape, [ix \in Idx(LabelShape) |-> GtVal(k, ix)]),
         com      |-> ComOf(k)]

\* a NamedImgSequence: name, data (frames), config['cube'].  Frame i has seed
\* k + i - 1; with rg the last frame of a longer sequence has another shape.
MkSeq(nm, n, sh, k, cb, rg) ==
    [name |-> nm,
     data |-> [i \in 1..n |->
                 MkFrame(IF rg /\ i = n /\ n > 1 THEN <<sh[1] + 1, sh[2]>> ELSE sh,
                         k + i - 1)],
     cube |-> <<cb, cb, cb>>]

RECURSIVE SeqsUpTo(_, _)
SeqsUpTo(S, n) ==
    IF n = 0 THEN {<<>>}
    ELSE LET T == SeqsUpTo(S, n - 1)
         IN  T \cup {Append(t, x) : t \in {u \in T : Len(u) = n - 1}, x \in S}

\* ------------------------------------------------------------ results
Empty == [kind |-> "empty"]
Raise(e) == [kind |-> "raise", exc |-> e]
Stacks(img, lbl) == [kind |-> "stacks", img |-> img, lbl |-> lbl]
Found(seq) == [kind |-> "seq", seq |-> seq]

\* ------------------------------------------------------------ Dataset
\* for seq in self._imgSeqs: if seq.name == seqName: ... (first match);
\* 0 when the loop ends without a match
\* the loop without its break (lines 67, 84, 122): the last match wins
FirstIndex_Last(seqs, seqName) ==
    LET hits == {i \in 1..Len(seqs) : seqs[i].name = seqName}
    IN  IF hits = {} THEN 0
        ELSE CHOOSE i \in hits : \A j \in hits : j <= i

FirstIndex(seqs, seqName) ==
    LET hits == {i \in 1..Len(seqs) : seqs[i].name = seqName}
    IN  IF hits = {} THEN 0
        ELSE CHOOSE i \in hits : \A j \in hits : i <= j

imgSeq_RaisesOnMiss(seqs, seqName) ==
    LET i == FirstIndex(seqs, seqName)
    IN  IF i = 0 THEN Raise("KeyError") ELSE Found(seqs[i])

\* Dataset.imgSeq
imgSeq(seqs, seqName) ==
    LET i == FirstIndex(seqs, seqName)
    IN  IF i = 0 THEN Empty ELSE Found(seqs[i])

\* imgSeq.config['cube'][2] / 2.
HalfCube(seq) == RDiv(RInt(seq.cube[3]), RInt(2))

LabelOf_NoClip(seq, i) ==
    ArrDiv(AsFloat32(seq.data[i].gt3Dcrop), HalfCube(seq))

\* numpy.clip(asarray(gt3Dcrop, 'float32') / (cube[2] / 2.), -1, 1)
LabelOf(seq, i) ==
    ArrClip(ArrDiv(AsFloat32(seq.data[i].gt3Dcrop), HalfCube(seq)),
            RInt(-1), RInt(1))

\* line 98 dividing by 255.
NormRGB_Div255(seq, i, normZeroOne) ==
    IF normZeroOne
    THEN ArrDiv(AsFloat32(seq.data[i].color), RInt(255))
    ELSE ArrDiv(ArrSub(AsFloat32(seq.data[i].color), RInt(128)), RInt(128))

\* per-frame image of imgStackRGBOnly (lines 96-102)
NormRGB(seq, i, normZeroOne) ==
    IF normZeroOne
    THEN ArrDiv(AsFloat32(seq.data[i].color), RInt(256))
    ELSE ArrDiv(ArrSub(AsFloat32(seq.data[i].color), RInt(128)), RInt(128))

HoleValue_NoCom(seq, i) == HalfCube(seq)

\* value written into the pixels with dpt == 0 (lines 136, 141)
HoleValue(seq, i) == RAdd(RInt(seq.data[i].com[3]), HalfCube(seq))

\* line 138 dividing by cube[2] / 2. as line 143 does
NormDepth_HalfCubeDivisor(seq, i, normZeroOne) ==
    LET filled == ArrFillZeros(AsFloat32(seq.data[i].dpt), HoleValue(seq, i))
    IN  IF normZeroOne
        THEN ArrDiv(ArrSub(filled, RSub(RInt(seq.data[i].com[3]), HalfCube(seq))),
                    HalfCube(seq))
        ELSE ArrDiv(ArrSub(filled, RInt(seq.data[i].com[3])), HalfCube(seq))

\* per-frame image of imgStackDepthOnly (lines 134-143)
NormDepth(seq, i, normZeroOne) ==
    LET filled == ArrFillZeros(AsFloat32(seq.data[i].dpt), HoleValue(seq, i))
    IN  IF normZeroOne
        THEN ArrDiv(ArrSub(filled, RSub(RInt(seq.data[i].com[3]), HalfCube(seq))),
                    RInt(seq.cube[3]))
        ELSE ArrDiv(ArrSub(filled, RInt(seq.data[i].com[3])), HalfCube(seq))

FrameImage(modality, seq, i, normZeroOne) ==
    IF modality = "rgb" THEN NormRGB(seq, i, normZeroOne)
    ELSE NormDepth(seq, i, normZeroOne)

\* shape of the allocated image stack (lines 91-93, 129-131)
ImgStackShape(modality, seq) ==
    LET numImgs == Len(seq.data)
    IN  IF modality = "rgb"
        THEN LET s == seq.data[1].color.shape IN <<numImgs, 3, s[1], s[2]>>
        ELSE LET s == seq.data[1].dpt.shape IN <<numImgs, 1, s[1], s[2]>>

LabelStackShape(seq) ==
    LET s == seq.data[1].gtorig.shape IN <<Len(seq.data), s[1], s[2]>>

\* the per-frame loop (lines 95-105, 133-146) from frame i on
RECURSIVE FrameLoop(_, _, _, _, _, _)
FrameLoop(modality, seq, normZeroOne, i, imgStack, labelStack) ==
    IF i > Len(seq.data) THEN Stacks(imgStack, labelStack)
    ELSE LET img == FrameImage(modality, seq, i, normZeroOne)
             lbl == LabelOf(seq, i)
         IN  IF ~Broadcastable(img.shape, Tail(imgStack.shape))
             THEN Raise("ValueError")
             ELSE IF ~Broadcastable(lbl.shape, Tail(labelStack.shape))
             THEN Raise("ValueError")
             ELSE FrameLoop(modality, seq, normZeroOne, i + 1,
                            SetItem(imgStack, i, img),
                            SetItem(labelStack, i, lbl))

\* "compute the stack from the sequence" (lines 88-105, 126-146)
ComputeStacks(modality, seq, normZeroOne) ==
    IF Len(seq.data) = 0 THEN Raise("IndexError")
    ELSE FrameLoop(modality, seq, normZeroOne, 1,
                   Zeros(ImgStackShape(modality, seq)),
                   Zeros(LabelStackShape(seq)))

\* ------------------------------------------------------------ state
VARIABLES
    localCache,    \* self.localCache
    imgSeqs,       \* self._imgSeqs
    imgStacks,     \* self._imgStacks  : name -> color image stack
    dptStacks,     \* self._dptStacks  : name -> depth image stack
    labelStacks,   \* self._labelStacks: name -> label stack
    last,          \* the last call: method, arguments, what it returned
    served         \* the <<method, name>> for which a builder has returned
                   \* stacks since the collection was last set (history)

vars == <<localCache, imgSeqs, imgStacks, dptStacks, labelStacks, last, served>>

\* Python dicts
EmptyDict == [x \in {} |-> x]
Put(dict, key, val) ==
    [x \in (DOMAIN dict) \cup {key} |-> IF x = key THEN val ELSE dict[x]]

\* self._imgStacks[seqName], self._labelStacks[seqName] (lines 113, 154)
ReturnCached(stacks, labels, seqName) ==
    IF seqName \notin DOMAIN stacks \/ seqName \notin DOMAIN labels
    THEN Raise("KeyError")
    ELSE Stacks(stacks[seqName], labels[seqName])

\* Outcome of a builder call: what it returns, the three dicts after it and
\* whether the stack was computed from the sequence.
Outcome(ret, img, dpt, lbl, computed) ==
    [ret |-> ret, imgStacks |-> img, dptStacks |-> dpt, labelStacks |-> lbl,
     computed |-> computed]

\* the membership test of line 86 replaced by True: the cache is never hit
imgStackRGBOnly_NeverHits(cache, seqs, img, dpt, lbl, seqName, normZeroOne) ==
    LET i == FirstIndex(seqs, seqName)
    IN  IF i = 0 THEN Outcome(Empty, img, dpt, lbl, FALSE)
        ELSE LET c == ComputeStacks("rgb", seqs[i], normZeroOne)
             IN  IF c.kind = "raise" THEN Outcome(c, img, dpt, lbl, TRUE)
                 ELSE IF cache
                 THEN LET img2 == Put(img, seqName, c.img)
                          lbl2 == Put(lbl, seqName, c.lbl)
                      IN  Outcome(ReturnCached(img2, lbl2, seqName),
                                  img2, dpt, lbl2, TRUE)
                 ELSE Outcome(c, img, dpt, lbl, TRUE)

\* Dataset.imgStackRGBOnly
imgStackRGBOnly(cache, seqs, img, dpt, lbl, seqName, normZeroOne) ==
    LET i == FirstIndex(seqs, seqName)
    IN  IF i = 0 THEN Outcome(Empty, img, dpt, lbl, FALSE)
        ELSE IF seqName \notin DOMAIN img
        THEN LET c == ComputeStacks("rgb", seqs[i], normZeroOne)
             IN  IF c.kind = "raise" THEN Outcome(c, img, dpt, lbl, TRUE)
                 ELSE IF cache
                 THEN LET img2 == Put(img, seqName, c.img)
                          lbl2 == Put(lbl, seqName, c.lbl)
                      IN  Outcome(ReturnCached(img2, lbl2, seqName),
                                  img2, dpt, lbl2, TRUE)
                 ELSE Outcome(c, img, dpt, lbl, TRUE)
        ELSE Outcome(ReturnCached(img, lbl, seqName), img, dpt, lbl, FALSE)

\* the depth builder using self._imgStacks where it should use self._dptStacks
imgStackDepthOnly_ColorDict(cache, seqs, img, dpt, lbl, seqName, normZeroOne) ==
    LET i == FirstIndex(seqs, seqName)
    IN  IF i = 0 THEN Outcome(Empty, img, dpt, lbl, FALSE)
        ELSE IF seqName \notin DOMAIN img
        THEN LET c == ComputeStacks("dpt", seqs[i], normZeroOne)
             IN  IF c.kind = "raise" THEN Outcome(c, img, dpt, lbl, TRUE)
                 ELSE IF cache
                 THEN LET img2 == Put(img, seqName, c.img)
                          lbl2 == Put(lbl, seqName, c.lbl)
                      IN  Outcome(ReturnCached(img2, lbl2, seqName),
                                  img2, dpt, lbl2, TRUE)
                 ELSE Outcome(c, img, dpt, lbl, TRUE)
        ELSE Outcome(ReturnCached(img, lbl, seqName), img, dpt, lbl, FALSE)

\* lines 149-150 moved before the loop: the allocated stacks are stored first
imgStackDepthOnly_StoresEarly(cache, seqs, img, dpt, lbl, seqName, normZeroOne) ==
    LET i == FirstIndex(seqs, seqName)
    IN  IF i = 0 THEN Outcome(Empty, img, dpt, lbl, FALSE)
        ELSE IF seqName \notin DOMAIN dpt
        THEN LET c == ComputeStacks("dpt", seqs[i], normZeroOne)
                 early == cache /\ Len(seqs[i].data) > 0
                 dpt0 == IF early
                         THEN Put(dpt, seqName, Zeros(ImgStackShape("dpt", seqs[i])))
                         ELSE dpt
                 lbl0 == IF early
                         THEN Put(lbl, seqName, Zeros(LabelStackShape(seqs[i])))
                         ELSE lbl
             IN  IF c.kind = "raise" THEN Outcome(c, img, dpt0, lbl0, TRUE)
                 ELSE IF cache
                 THEN LET dpt2 == Put(dpt, seqName, c.img)
                          lbl2 == Put(lbl, seqName, c.lbl)
                      IN  Outcome(ReturnCached(dpt2, lbl2, seqName),
                                  img, dpt2, lbl2, TRUE)
                 ELSE Outcome(c, img, dpt, lbl, TRUE)
        ELSE Outcome(ReturnCached(dpt, lbl, seqName), img, dpt, lbl, FALSE)

\* line 150 dropped: the depth stack is stored without its label stack
imgStackDepthOnly_NoLabelStore(cache, seqs, img, dpt, lbl, seqName, normZeroOne) ==
    LET i == FirstIndex(seqs, seqName)
    IN  IF i = 0 THEN Outcome(Empty, img, dpt, lbl, FALSE)
        ELSE IF seqName \notin DOMAIN dpt
        THEN LET c == ComputeStacks("dpt", seqs[i], normZeroOne)
             IN  IF c.kind = "raise" THEN Outcome(c, img, dpt, lbl, TRUE)
                 ELSE IF cache
                 THEN LET dpt2 == Put(dpt, seqName, c.img)
                      IN  Outcome(ReturnCached(dpt2, lbl, seqName),
                                  img, dpt2, lbl, TRUE)
                 ELSE Outcome(c, img, dpt, lbl, TRUE)
        ELSE Outcome(ReturnCached(dpt, lbl, seqName), img, dpt, lbl, FALSE)

\* line 150 keeping a label stack the dict already holds for the name
imgStackDepthOnly_KeepsLabel(cache, seqs, img, dpt, lbl, seqName, normZeroOne) ==
    LET i == FirstIndex(seqs, seqName)
    IN  IF i = 0 THEN Outcome(Empty, img, dpt, lbl, FALSE)
        ELSE IF seqName \notin DOMAIN dpt
        THEN LET c == ComputeStacks("dpt", seqs[i], normZeroOne)
             IN  IF c.kind = "raise" THEN Outcome(c, img, dpt, lbl, TRUE)
                 ELSE IF cache
                 THEN LET dpt2 == Put(dpt, seqName, c.img)
                          lbl2 == IF seqName \in DOMAIN lbl THEN lbl
                                  ELSE Put(lbl, seqName, c.lbl)
                      IN  Outcome(ReturnCached(dpt2, lbl2, seqName),
                                  img, dpt2, lbl2, TRUE)
                 ELSE Outcome(c, img, dpt, lbl, TRUE)
        ELSE Outcome(ReturnCached(dpt, lbl, seqName), img, dpt, lbl, FALSE)

\* the test of self.localCache (line 148) dropped: the stacks are always stored
imgStackDepthOnly_AlwaysStores(cache, seqs, img, dpt, lbl, seqName, normZeroOne) ==
    LET i == FirstIndex(seqs, seqName)
    IN  IF i = 0 THEN Outcome(Empty, img, dpt, lbl, FALSE)
        ELSE IF seqName \notin DOMAIN dpt
        THEN LET c == ComputeStacks("dpt", seqs[i], normZeroOne)
             IN  IF c.kind = "raise" THEN Outcome(c, img, dpt, lbl, TRUE)
                 ELSE LET dpt2 == Put(dpt, seqName, c.img)
                          lbl2 == Put(lbl, seqName, c.lbl)
                      IN  Outcome(ReturnCached(dpt2, lbl2, seqName),
                                  img, dpt2, lbl2, TRUE)
        ELSE Outcome(ReturnCached(dpt, lbl, seqName), img, dpt, lbl, FALSE)

\* Dataset.imgStackDepthOnly
imgStackDepthOnly(cache, seqs, img, dpt, lbl, seqName, normZeroOne) ==
    LET i == FirstIndex(seqs, seqName)
    IN  IF i = 0 THEN Outcome(Empty, img, dpt, lbl, FALSE)
        ELSE IF seqName \notin DOMAIN dpt
        THEN LET c == ComputeStacks("dpt", seqs[i], normZeroOne)
             IN  IF c.kind = "raise" THEN Outcome(c, img, dpt, lbl, TRUE)
                 ELSE IF cache
                 THEN LET dpt2 == Put(dpt, seqName, c.img)
                          lbl2 == Put(lbl, seqName, c.lbl)
                      IN  Outcome(ReturnCached(dpt2, lbl2, seqName),
                                  img, dpt2, lbl2, TRUE)
                 ELSE Outcome(c, img, dpt, lbl, TRUE)
        ELSE Outcome(ReturnCached(dpt, lbl, seqName), img, dpt, lbl, FALSE)

\* the imgSeqs setter (lines 71-75): the three dicts after the assignment
SetterImgStacks_Keep(old) == old
SetterImgStacks(old) == EmptyDict
SetterDptStacks_Keep(old) == old
SetterDptStacks(old) == EmptyDict
SetterLabelStacks(old) == old

\* The record of a call.  repeat: the call before it was the same method with
\* the same arguments.  held: for the setter, the <<method, name>> whose image
\* stack was cached when the assignment was made; for a call that directly
\* follows the setter, whether its own <<method, name>> was among them.
Call(op, name, norm, ret, computed) ==
    [op |-> op, name |-> name, norm |-> norm, ret |-> ret,
     computed |-> computed,
     repeat |-> last.op = op /\ last.name = name /\ last.norm = norm,
     held |-> IF op = "setter"
              THEN {<<"rgb", n>> : n \in DOMAIN imgStacks}
                       \cup {<<"dpt", n>> : n \in DOMAIN dptStacks}
              ELSE IF last.op = "setter" THEN last.held \cap {<<op, name>>}
              ELSE {}]

\* Sequences handed to the setter: two different 3x3 sequences named "a" and
\* a 1x2 sequence of two frames named "b".  The constructor also takes a
\* sequence without frames and one whose frames differ in shape.
SeqPool ==
    {MkSeq("a", 1, <<3, 3>>, 0, 2, FALSE),
     MkSeq("a", 1, <<3, 3>>, 1, 3, FALSE),
     MkSeq("b", 2, <<1, 2>>, 1, 2, FALSE)}
NoFrames == {MkSeq("a", 0, <<3, 3>>, 0, 2, FALSE)}
\* a sequence whose second frame is one row taller than its first
Ragged == {MkSeq("b", 2, <<1, 2>>, 0, 3, TRUE)}
Collections == SeqsUpTo(SeqPool, MaxSeqs)
InitCollections == SeqsUpTo(SeqPool \cup NoFrames \cup Ragged, MaxSeqs)

\* One registered sequence of every shape, length, seed and cube, never
\* replaced: the inputs of the stack computation.
BuildPool ==
    {MkSeq(nm, n, sh, k, cb, FALSE) :
        nm \in Names, n \in 0..MaxFrames, sh \in Shapes, k \in 0..MaxSeed,
        cb \in Cubes}

\* Dataset.__init__
Construct(seqsets) ==
    /\ localCache \in BOOLEAN
    /\ imgSeqs \in seqsets
    /\ imgStacks = EmptyDict
    /\ dptStacks = EmptyDict
    /\ labelStacks = EmptyDict
    /\ last = [op |-> "init", name |-> "", norm |-> FALSE, ret |-> Empty,
               computed |-> FALSE, repeat |-> FALSE, held |-> {}]
    /\ served = {}

Init == Construct(InitCollections)
InitBuild == Construct({<<s>> : s \in BuildPool})

\* ds.imgSeqs = value
SetImgSeqs ==
    \E value \in Collections :
        /\ imgSeqs' = value
        /\ imgStacks' = SetterImgStacks(imgStacks)
        /\ dptStacks' = SetterDptStacks(dptStacks)
        /\ labelStacks' = SetterLabelStacks(labelStacks)
        /\ last' = Call("setter", "", FALSE, Empty, FALSE)
        /\ served' = {}
        /\ UNCHANGED localCache

\* ds.imgSeq(seqName)
GetImgSeq ==
    \E seqName \in ReqNames :
        /\ last' = Call("imgSeq", seqName, FALSE, imgSeq(imgSeqs, seqName), FALSE)
        /\ UNCHANGED <<localCache, imgSeqs, imgStacks, dptStacks, labelStacks,
                       served>>

Apply(op, seqName, normZeroOne, o) ==
    /\ imgStacks' = o.imgStacks
    /\ dptStacks' = o.dptStacks
    /\ labelStacks' = o.labelStacks
    /\ last' = Call(op, seqName, normZeroOne, o.ret, o.computed)
    /\ served' = IF o.ret.kind = "stacks" THEN served \cup {<<op, seqName>>}
                 ELSE served
    /\ UNCHANGED <<localCache, imgSeqs>>

\* ds.imgStackRGBOnly(seqName, normZeroOne)
BuildColorStack ==
    \E seqName \in ReqNames, normZeroOne \in BOOLEAN :
        Apply("rgb", seqName, normZeroOne,
              imgStackRGBOnly(localCache, imgSeqs, imgStacks, dptStacks,
                              labelStacks, seqName, normZeroOne))

\* ds.imgStackDepthOnly(seqName, normZeroOne)
BuildDepthStack ==
    \E seqName \in ReqNames, normZeroOne \in BOOLEAN :
        Apply("dpt", seqName, normZeroOne,
              imgStackDepthOnly(localCache, imgSeqs, imgStacks, dptStacks,
                                labelStacks, seqName, normZeroOne))

Next == SetImgSeqs \/ GetImgSeq \/ BuildColorStack \/ BuildDepthStack

Spec == Init /\ [][Next]_vars

\* the builders and the lookup on a collection that is never replaced
NextBuild == GetImgSeq \/ BuildColorStack \/ BuildDepthStack
SpecBuild == InitBuild /\ [][NextBuild]_vars

\* ------------------------------------------------------------ properties
Builders == {"rgb", "dpt"}
IsBuilderCall(c) == c.op \in Builders
Returned(c) == c.ret.kind = "stacks"
Registered(seqs, name) == FirstIndex(seqs, name) # 0
\* the sequence a lookup of name resolves to
Resolve(seqs, name) == seqs[FirstIndex(seqs, name)]

\* C1: after the imgSeqs setter, the color image-stack cache, the depth
\* image-stack cache and the label-stack cache are all empty.
C1_SetterEmptiesAllCaches ==
    last.op = "setter" =>
        /\ DOMAIN imgStacks = {}
        /\ DOMAIN dptStacks = {}
        /\ DOMAIN labelStacks = {}

\* C2: with caching enabled, the first builder call that returns stacks for a
\* name and method since the collection was set (or constructed) returns the
\* image stack and the label stack computed from the sequence that name has
\* in the current collection, with the mode of the call.
C2_FirstCallUsesNewSequence ==
    [][ ( /\ localCache
          /\ IsBuilderCall(last')
          /\ Returned(last')
          /\ <<last'.op, last'.name>> \notin served )
        => /\ Registered(imgSeqs', last'.name)
           /\ last'.ret = ComputeStacks(last'.op, Resolve(imgSeqs', last'.name),
                                        last'.norm) ]_vars

\* a call directly after a replacement, for a name whose image stack was
\* cached under the replaced collection and whose sequence has changed
C2_Witness ==
    /\ localCache
    /\ IsBuilderCall(last)
    /\ Returned(last)
    /\ last.held = {<<last.op, last.name>>}
    /\ last.name \in DOMAIN labelStacks
    /\ last.computed
    /\ \E other \in SeqPool :
          /\ other.name = last.name
          /\ other # Resolve(imgSeqs, last.name)
          /\ ComputeStacks(last.op, other, last.norm).kind = "stacks"
          /\ ComputeStacks(last.op, other, last.norm) # last.ret

\* C3: with caching enabled, the image stack a builder returns for
\* normZeroOne = b is the stack normalized with mode b.
C3_ReturnedStackHasRequestedMode ==
    (localCache /\ IsBuilderCall(last) /\ Returned(last)) =>
        last.ret.img = ComputeStacks(last.op, Resolve(imgSeqs, last.name),
                                     last.norm).img

\* the two normalizations of a color value v, as the specification states them
ColorNorm(v, normZeroOne) ==
    IF normZeroOne THEN Rat(v, 256) ELSE Rat(v - 128, 128)

\* C4: for a registered sequence of N >= 1 frames of one shape, the color
\* builder returns an image stack of shape (N,3,H,W) whose entry [i][c][y][x]
\* is the normalized color[y][x][c] of frame i, and a label stack of shape
\* (N,J,D).
C4_ColorStackShapeAndLayout ==
    ( /\ last.op = "rgb"
      /\ Registered(imgSeqs, last.name)
      /\ Len(Resolve(imgSeqs, last.name).data) >= 1 )
    => LET seq == Resolve(imgSeqs, last.name)
           N == Len(seq.data)
           cs == seq.data[1].color.shape
           gs == seq.data[1].gtorig.shape
       IN  /\ Returned(last)
           /\ last.ret.img.shape = <<N, 3, cs[1], cs[2]>>
           /\ last.ret.lbl.shape = <<N, gs[1], gs[2]>>
           /\ \A ix \in DOMAIN last.ret.img.at :
                 last.ret.img.at[ix] =
                     ColorNorm(seq.data[ix[1]].color.at[<<ix[3], ix[4], ix[2]>>],
                               last.norm)

\* C5: find and both builders return the empty result for a name that
\* matches no sequence of the collection, whatever the caches hold and
\* whatever the mode.
C5_UnknownNameReturnsEmpty ==
    (last.op \in {"imgSeq", "rgb", "dpt"} /\ ~Registered(imgSeqs, last.name))
        => last.ret = Empty

C5_Witness ==
    /\ last.op = "dpt"
    /\ last.norm
    /\ ~Registered(imgSeqs, last.name)
    /\ last.ret = Empty
    /\ DOMAIN dptStacks # {}
    /\ DOMAIN labelStacks # {}

\* C6: for a registered sequence without frames both builders return the
\* empty result.
C6_NoFramesReturnsEmpty ==
    ( /\ IsBuilderCall(last)
      /\ Registered(imgSeqs, last.name)
      /\ Len(Resolve(imgSeqs, last.name).data) = 0 )
    => last.ret = Empty

\* the dict a builder reads and writes its image stacks in
CacheOf(op, img, dpt) == IF op = "rgb" THEN img ELSE dpt

\* C7: a builder call that repeats the call before it (same method, name and
\* mode, no assignment of the collection in between) has the same outcome;
\* when stacks are returned they equal those of the first call, with caching
\* they are the entries held in the cache and nothing is recomputed, without
\* caching they are recomputed.
C7_RepeatedCallIdempotent ==
    [][ (IsBuilderCall(last') /\ last'.repeat)
        => /\ last'.ret = last.ret
           /\ Returned(last') =>
                 IF localCache
                 THEN /\ ~last'.computed
                      /\ last'.name \in DOMAIN CacheOf(last'.op, imgStacks', dptStacks')
                      /\ last'.name \in DOMAIN labelStacks'
                      /\ last'.ret.img =
                            CacheOf(last'.op, imgStacks', dptStacks')[last'.name]
                      /\ last'.ret.lbl = labelStacks'[last'.name]
                 ELSE last'.computed ]_vars

C7_Witness ==
    /\ localCache
    /\ last.op = "rgb"
    /\ last.repeat
    /\ Returned(last)
    /\ ~last.computed
    /\ Len(Resolve(imgSeqs, last.name).data) >= 1

\* the two depth normalizations of a value v (a rational), as the
\* specification states them
DepthNorm(v, com2, cube2, normZeroOne) ==
    IF normZeroOne
    THEN RDiv(RSub(v, RSub(RInt(com2), Rat(cube2, 2))), RInt(cube2))
    ELSE RDiv(RSub(v, RInt(com2)), Rat(cube2, 2))

\* C8: every pixel of a frame with dpt = 0 holds, in the stack the depth
\* builder returns, the normalization of com[2] + cube[2]/2 of that frame and
\* sequence under the mode of the call.
C8_DepthHoleSubstitution ==
    (last.op = "dpt" /\ Returned(last)) =>
        LET seq == Resolve(imgSeqs, last.name)
        IN  \A i \in 1..Len(seq.data) :
              \A px \in DOMAIN seq.data[i].dpt.at :
                 seq.data[i].dpt.at[px] = 0 =>
                    last.ret.img.at[<<i, 1>> \o px] =
                       DepthNorm(RAdd(RInt(seq.data[i].com[3]), Rat(seq.cube[3], 2)),
                                 seq.data[i].com[3], seq.cube[3], last.norm)

C8_Witness ==
    /\ last.op = "dpt"
    /\ Returned(last)
    /\ last.norm
    /\ LET seq == Resolve(imgSeqs, last.name)
       IN  /\ Len(seq.data) >= 2
           /\ seq.data[1].com # seq.data[2].com
           /\ \E px \in DOMAIN seq.data[2].dpt.at :
                 /\ seq.data[2].dpt.at[px] = 0
                 /\ last.ret.img.at[<<2, 1>> \o px] = RInt(1)
           /\ \E px \in DOMAIN seq.data[2].dpt.at : seq.data[2].dpt.at[px] # 0

\* clip(g / (cube2/2), -1, 1) of an integer coordinate g, cube2 > 0
ClippedLabel(g, cube2) ==
    IF 2 * g > cube2 THEN RInt(1)
    ELSE IF 2 * g < -cube2 THEN RInt(-1)
    ELSE Rat(2 * g, cube2)

\* C9: every entry of a returned label stack is clip(gt3Dcrop/(cube[2]/2),-1,1)
\* of the frame's coordinate: it lies in [-1,1], and is exactly 1 or -1 with
\* the sign of a coordinate whose magnitude exceeds cube[2]/2.
C9_LabelsClipped ==
    (IsBuilderCall(last) /\ Returned(last)) =>
        LET seq == Resolve(imgSeqs, last.name)
        IN  /\ last.ret.lbl.shape[1] = Len(seq.data)
            /\ \A ix \in DOMAIN last.ret.lbl.at :
                 LET g == seq.data[ix[1]].gt3Dcrop.at[Tail(ix)]
                     v == last.ret.lbl.at[ix]
                 IN  /\ v = ClippedLabel(g, seq.cube[3])
                     /\ RLe(RInt(-1), v) /\ RLe(v, RInt(1))
                     /\ 2 * g > seq.cube[3] => v = RInt(1)
                     /\ 2 * g < -seq.cube[3] => v = RInt(-1)

C9_Witness ==
    /\ IsBuilderCall(last)
    /\ Returned(last)
    /\ LET seq == Resolve(imgSeqs, last.name)
       IN  \E ix, iy, iz \in DOMAIN last.ret.lbl.at :
              /\ 2 * seq.data[ix[1]].gt3Dcrop.at[Tail(ix)] > seq.cube[3]
              /\ last.ret.lbl.at[ix] = RInt(1)
              /\ 2 * seq.data[iy[1]].gt3Dcrop.at[Tail(iy)] < -seq.cube[3]
              /\ last.ret.lbl.at[iy] = RInt(-1)
              /\ RLt(RInt(0), last.ret.lbl.at[iz])
              /\ RLt(last.ret.lbl.at[iz], RInt(1))

\* C10: the color builder leaves the depth image-stack cache as it is and the
\* depth builder leaves the color image-stack cache as it is; the image stack
\* a builder returns is one its own method computes from the sequence
\* (3 channels for color, 1 for depth).
C10_NamespacesSeparate ==
    /\ [][ /\ last'.op = "rgb" => dptStacks' = dptStacks
           /\ last'.op = "dpt" => imgStacks' = imgStacks ]_vars
    /\ []( (IsBuilderCall(last) /\ Returned(last)) =>
              /\ last.ret.img.shape[2] = (IF last.op = "rgb" THEN 3 ELSE 1)
              /\ \E b \in BOOLEAN :
                    last.ret.img =
                       ComputeStacks(last.op, Resolve(imgSeqs, last.name), b).img )

C10_Witness ==
    /\ localCache
    /\ last.op = "rgb"
    /\ Returned(last)
    /\ ~last.computed
    /\ last.name \in DOMAIN imgStacks
    /\ last.name \in DOMAIN dptStacks
    /\ imgStacks[last.name] # dptStacks[last.name]

\* C11: without caching the three dicts stay empty, and every builder call
\* for a registered sequence with frames computes its stacks from the
\* sequence.
C11_NoCacheNothingRetained ==
    ~localCache =>
        /\ DOMAIN imgStacks = {}
        /\ DOMAIN dptStacks = {}
        /\ DOMAIN labelStacks = {}
        /\ ( /\ IsBuilderCall(last)
             /\ Registered(imgSeqs, last.name)
             /\ Len(Resolve(imgSeqs, last.name).data) >= 1 )
           => last.computed

C11_Witness ==
    /\ ~localCache
    /\ last.op = "dpt"
    /\ last.repeat
    /\ Returned(last)
    /\ last.computed
    /\ <<"rgb", "a">> \in served
    /\ DOMAIN labelStacks = {}

\* C12: in the stack the depth builder computes, every pixel with a
\* measurement v holds (v - (com[2] - cube[2]/2)) / cube[2] under normZeroOne
\* and (v - com[2]) / (cube[2]/2) otherwise, with the frame's com and the
\* sequence's cube; for v inside the crop range the value lies in [0,1]
\* resp. [-1,1]; the stack has shape (N,1,H,W).
C12_DepthNormalization ==
    (last.op = "dpt" /\ Returned(last) /\ last.computed) =>
        LET seq == Resolve(imgSeqs, last.name)
            ds == seq.data[1].dpt.shape
        IN  /\ last.ret.img.shape = <<Len(seq.data), 1, ds[1], ds[2]>>
            /\ \A i \in 1..Len(seq.data) :
                 \A px \in DOMAIN seq.data[i].dpt.at :
                    LET v == seq.data[i].dpt.at[px]
                        com2 == seq.data[i].com[3]
                        out == last.ret.img.at[<<i, 1>> \o px]
                    IN  v # 0 =>
                          /\ out = DepthNorm(RInt(v), com2, seq.cube[3], last.norm)
                          /\ 2 * Abs(v - com2) <= seq.cube[3] =>
                                IF last.norm
                                THEN RLe(RInt(0), out) /\ RLe(out, RInt(1))
                                ELSE RLe(RInt(-1), out) /\ RLe(out, RInt(1))

C12_Witness ==
    /\ last.op = "dpt"
    /\ Returned(last)
    /\ last.computed
    /\ ~last.norm
    /\ LET seq == Resolve(imgSeqs, last.name)
       IN  /\ Len(seq.data) >= 2
           /\ \E px \in DOMAIN seq.data[2].dpt.at :
                 /\ seq.data[2].dpt.at[px] # 0
                 /\ RLt(RInt(-1), last.ret.img.at[<<2, 1>> \o px])
                 /\ RLt(last.ret.img.at[<<2, 1>> \o px], RInt(0))
           /\ \E px \in DOMAIN seq.data[1].dpt.at :
                 /\ seq.data[1].dpt.at[px] # 0
                 /\ RLt(RInt(0), last.ret.img.at[<<1, 1>> \o px])

\* C13: for color values in 0..255 every value of the image stack the color
\* builder computes is value/256 and lies in [0,1) under normZeroOne, and is
\* (value-128)/128 and lies in [-1,1] otherwise.
C13_ColorNormalizationBounds ==
    (last.op = "rgb" /\ Returned(last) /\ last.computed) =>
        LET seq == Resolve(imgSeqs, last.name)
        IN  \A ix \in DOMAIN last.ret.img.at :
               LET out == last.ret.img.at[ix]
                   frame == seq.data[ix[1]].color
               IN  /\ \E cx \in DOMAIN frame.at :
                         /\ frame.at[cx] \in 0..255
                         /\ out = ColorNorm(frame.at[cx], last.norm)
                   /\ IF last.norm
                      THEN RLe(RInt(0), out) /\ RLt(out, RInt(1))
                      ELSE RLe(RInt(-1), out) /\ RLe(out, RInt(1))

C13_Witness ==
    /\ last.op = "rgb"
    /\ Returned(last)
    /\ last.computed
    /\ last.norm
    /\ \E ix, iy \in DOMAIN last.ret.img.at :
          /\ last.ret.img.at[ix] = RInt(0)
          /\ last.ret.img.at[iy] = Rat(255, 256)
    /\ \E i \in 1..Len(Resolve(imgSeqs, last.name).data) :
          \E cx \in DOMAIN Resolve(imgSeqs, last.name).data[i].color.at :
             Resolve(imgSeqs, last.name).data[i].color.at[cx] = 255

\* C14: with caching, the label dict has one entry per name, written by every
\* builder call that computes stacks for the name, whichever method it is,
\* and by nothing else; a cache hit of either builder returns that entry.
\* So a hit returns the label stack of the latest computation for the name.
C14_LastComputedLabelWins ==
    [][ localCache =>
          /\ (IsBuilderCall(last') /\ last'.computed /\ Returned(last')) =>
                /\ last'.name \in DOMAIN labelStacks'
                /\ labelStacks'[last'.name] =
                      ComputeStacks(last'.op, Resolve(imgSeqs, last'.name),
                                    last'.norm).lbl
                /\ last'.ret.lbl = labelStacks'[last'.name]
          /\ (IsBuilderCall(last') /\ ~last'.computed /\ Returned(last')) =>
                /\ last'.name \in DOMAIN labelStacks
                /\ last'.ret.lbl = labelStacks[last'.name]
          /\ \A n \in DOMAIN labelStacks :
                ~(IsBuilderCall(last') /\ last'.computed /\ Returned(last')
                    /\ last'.name = n)
                => /\ n \in DOMAIN labelStacks'
                   /\ labelStacks'[n] = labelStacks[n] ]_vars

C14_Witness ==
    /\ localCache
    /\ last.op = "dpt"
    /\ Returned(last)
    /\ ~last.computed
    /\ {<<"rgb", last.name>>, <<"dpt", last.name>>} \subseteq served
    /\ last.name \in DOMAIN imgStacks
    /\ last.name \in DOMAIN dptStacks
    /\ last.ret.lbl = labelStacks[last.name]

\* position i holds the first sequence of seqs, in collection order, named n
IsFirstNamed(seqs, i, n) ==
    /\ i \in 1..Len(seqs)
    /\ seqs[i].name = n
    /\ \A j \in 1..(i - 1) : seqs[j].name # n

\* C15: for a name some sequence of the collection has, find returns the
\* first sequence in collection order with that name, and a builder call that
\* computes does so from that same sequence, duplicate names included.
C15_LookupsResolveToFirstMatch ==
    \A i \in 1..Len(imgSeqs) :
        IsFirstNamed(imgSeqs, i, last.name) =>
            /\ last.op = "imgSeq" => last.ret = Found(imgSeqs[i])
            /\ (IsBuilderCall(last) /\ last.computed) =>
                  last.ret = ComputeStacks(last.op, imgSeqs[i], last.norm)
            /\ IsBuilderCall(last) => last.ret # Empty

C15_Witness ==
    /\ last.op = "dpt"
    /\ last.computed
    /\ Returned(last)
    /\ Len(imgSeqs) >= 2
    /\ imgSeqs[1].name = last.name
    /\ imgSeqs[2].name = last.name
    /\ imgSeqs[1] # imgSeqs[2]
    /\ imgSeq(imgSeqs, last.name) = Found(imgSeqs[1])
    /\ last.ret = ComputeStacks("dpt", imgSeqs[1], last.norm)
    /\ last.ret # ComputeStacks("dpt", imgSeqs[2], last.norm)

\* C16: every name that has an entry in the color or the depth image-stack
\* dict has an entry in the label-stack dict, so no builder call fails with
\* a missing label entry.
C16_CachedImageHasLabel ==
    /\ (DOMAIN imgStacks) \cup (DOMAIN dptStacks) \subseteq DOMAIN labelStacks
    /\ IsBuilderCall(last) => last.ret # Raise("KeyError")

C16_Witness ==
    /\ localCache
    /\ last.op = "dpt"
    /\ ~last.computed
    /\ Returned(last)
    /\ DOMAIN imgStacks = {}
    /\ DOMAIN dptStacks = {last.name}
    /\ last.name \in DOMAIN labelStacks
    /\ DOMAIN labelStacks # {last.name}

\* stack is the image stack op computes from seq under one of the two modes
ComputedFrom(op, seq, stack) ==
    \E b \in BOOLEAN :
        LET c == ComputeStacks(op, seq, b)
        IN  c.kind = "stacks" /\ c.img = stack

\* C17: every name with an entry in the color or the depth image-stack dict
\* names a sequence of the current collection, and the entry is the image
\* stack computed from that sequence: no entry outlives a replaced
\* collection.
C17_ImageCacheIsOfCurrentCollection ==
    /\ \A n \in DOMAIN imgStacks :
          /\ Registered(imgSeqs, n)
          /\ ComputedFrom("rgb", Resolve(imgSeqs, n), imgStacks[n])
    /\ \A n \in DOMAIN dptStacks :
          /\ Registered(imgSeqs, n)
          /\ ComputedFrom("dpt", Resolve(imgSeqs, n), dptStacks[n])

\* a depth stack cached again after a replacement that changed the sequence
\* of its name
C17_Witness ==
    /\ localCache
    /\ last.op = "dpt"
    /\ last.computed
    /\ last.held = {<<"dpt", last.name>>}
    /\ DOMAIN dptStacks = {last.name}
    /\ ComputedFrom("dpt", Resolve(imgSeqs, last.name), dptStacks[last.name])
    /\ \E other \in SeqPool :
          /\ other.name = last.name
          /\ ~ComputedFrom("dpt", other, dptStacks[last.name])

\* C18: a builder call that does not return stacks (unknown name, no frames,
\* a frame that does not fit the allocated stack) leaves the collection and
\* the three dicts as they were before the call.
C18_FailedCallChangesNothing ==
    [][ (IsBuilderCall(last') /\ ~Returned(last'))
        => UNCHANGED <<imgSeqs, imgStacks, dptStacks, labelStacks>> ]_vars

\* the depth builder failing at the second frame of a sequence, with entries
\* of another name in the dicts
C18_Witness ==
    /\ localCache
    /\ last.op = "dpt"
    /\ last.computed
    /\ last.ret = Raise("ValueError")
    /\ Len(Resolve(imgSeqs, last.name).data) >= 2
    /\ Resolve(imgSeqs, last.name).data[1].dpt.shape
          # Resolve(imgSeqs, last.name).data[2].dpt.shape
    /\ DOMAIN dptStacks # {}
    /\ last.name \notin DOMAIN dptStacks
    /\ last.name \notin DOMAIN labelStacks

====
